---- MODULE Spec2Model ----
(***************************************************************************)
(* Execution registry and cancellation coordinator of the script-cancel    *)
(* demo extension (service worker).  The repository carries three builds   *)
(* of the service worker:                                                  *)
(*   "coop"   src/background.js 1-267    cooperative flag + terminate      *)
(*   "basic"  src/background.js 269-475  terminate(executionId) only       *)
(*   "pregen" src/TESTING.md 161-443     pre-generated executionId,        *)
(*                                       records keyed by trackingId,      *)
(*                                       cancel keyed by tabId             *)
(* A behaviour runs one build, chosen in Init.  Every action is one        *)
(* synchronous run of the event loop: a handler from its entry (or from    *)
(* the await it was suspended on) to its next await or its return.         *)
(***************************************************************************)
EXTENDS Integers, Sequences, FiniteSets, TLC

(* ------------------------------ bounds --------------------------------- *)
MaxStarts == 2
MaxCancels == 2
MaxEarly == 1
MaxLate == 1
ClockStep == 2000
MaxScripts == 1
MaxScriptTicks == 6
ScriptStep == 500
MaxPolls == 2

(* ------------------------- program constants --------------------------- *)
GraceMargin == 1000
SweepInterval == 60000
\* the automatic timeout the README and the testing guide announce
AutoTimeout == 30000
RetentionWindow == 5 * 60 * 1000

Variants == {"coop", "basic", "pregen"}
Tabs == {1, 2}
Durations == {1000, 2000}
ExecIds == 1..MaxStarts
CancelIds == 1..MaxCancels

\* The readings of Date.now() at which the event loop is observed: MaxEarly
\* steps of the clock after load, and MaxLate steps past the retention window
\* (a record created one step after load is then exactly as old as the window).
Instants ==
  {k * ClockStep : k \in 0..MaxEarly} \cup
  {RetentionWindow + k * ClockStep : k \in 1..MaxLate}

Terminal == {"completed", "failed", "terminated"}

\* An optional field of a JavaScript object: <<>> when the property is unset.
Unset == <<>>
Some(v) == <<v>>

VARIABLES
  variant,           \* which build of the service worker runs
  apiAvailable,      \* chrome.userScripts && chrome.userScripts.execute
  now,               \* Date.now()
  activeExecutions,  \* the Map, in insertion order: <<[key, obj], ...>>
  objs,              \* the execution objects the Map's values refer to
  exec,              \* per executeScript message: the handler's position
  timer,             \* per executeScript message: the pending fallback setTimeout
  cancel,            \* per cancelScript message: the handler's position
  lastSweep,         \* when the cleanup setInterval last fired (load time at first)
  response,          \* the value handed to sendResponse by the last step (if any)
  popup,             \* the popup page: its click handler and what it was last sent
  page               \* the tabs' pages: per executeScript call, the script it injected

vars == <<variant, apiAvailable, now, activeExecutions, objs, exec, timer, cancel, lastSweep,
          response, popup, page>>

(* ------------------------------ the Map -------------------------------- *)
MapIndex(m, k) == {i \in 1..Len(m) : m[i].key = k}
MapHas(m, k) == MapIndex(m, k) # {}
\* Map.prototype.get: the object stored under k (0 stands for undefined)
MapGet(m, k) == IF MapHas(m, k) THEN m[CHOOSE i \in MapIndex(m, k) : TRUE].obj ELSE 0
\* Map.prototype.set: an existing key keeps its position and gets the new value
MapSet(m, k, o) ==
  IF MapHas(m, k)
  THEN [i \in 1..Len(m) |-> IF m[i].key = k THEN [key |-> k, obj |-> o] ELSE m[i]]
  ELSE Append(m, [key |-> k, obj |-> o])

Registered == {activeExecutions[i].obj : i \in 1..Len(activeExecutions)}

(* ----------------------------- responses ------------------------------- *)
\* `to` and `call` name the request answered; `target` and `said` (what
\* chrome.userScripts.terminate did: "none" when it was not called) are kept
\* beside a cancel response so that it can be compared with what happened.
NoResponse == [to |-> "none"]
ApiMissing == "chrome.userScripts.execute API is not available"
StartFailure(e, msg) == [to |-> "executeScript", call |-> e, success |-> FALSE, error |-> msg]
StartSuccess(e, id) == [to |-> "executeScript", call |-> e, success |-> TRUE, id |-> id]
CancelFailure(c, o, out, msg) ==
  [to |-> "cancelScript", call |-> c, target |-> o, said |-> out,
   success |-> FALSE, error |-> msg]
CancelSuccess(c, o, out, t) ==
  [to |-> "cancelScript", call |-> c, target |-> o, said |-> out,
   success |-> TRUE, terminated |-> t]

\* A handler's locals exist from its entry to its return ("done").
IdleExec == [pc |-> "idle", duration |-> 0, demoCase |-> "", tab |-> 0, key |-> Unset]
DoneExec == [IdleExec EXCEPT !.pc = "done"]
IdleCancel == [pc |-> "idle", arg |-> 0, target |-> 0]
DoneCancel == [IdleCancel EXCEPT !.pc = "done"]

\* The popup page after load: executeBtn enabled, no status shown, no list
\* received.  `call` and `duration` are the executeScript message its click
\* handler is waiting on.
\* poll callbacks of the popup that may be awaiting an answer at once
PollIds == 1..MaxPolls
\* pollingInterval is the id startPolling keeps (0 for null); intervals are
\* the setInterval timers of the page that are not cleared; poll[p] is where
\* the p-th running interval callback waits.
IdlePopup ==
  [pc |-> "idle", call |-> 0, duration |-> 0, status |-> Unset, executions |-> Unset,
   pollingInterval |-> 0, intervals |-> {}, poll |-> [p \in PollIds |-> "idle"]]

\* The script a call injects, before the browser runs it.  `flag` is the
\* property window.__scriptCancellations[tempId] (Unset: no such property);
\* the other fields are the script's constants and where it is suspended.
NoScript ==
  [pc |-> "none", tab |-> 0, startTime |-> 0, duration |-> 0, timeout |-> Unset,
   wake |-> 0, flag |-> Unset, outcome |-> Unset]

Init ==
  /\ variant \in Variants
  /\ apiAvailable \in BOOLEAN
  /\ now = 0
  /\ activeExecutions = <<>>
  /\ objs = <<>>
  /\ exec = [e \in ExecIds |-> IdleExec]
  /\ timer = [e \in ExecIds |-> Unset]
  /\ cancel = [c \in CancelIds |-> IdleCancel]
  /\ lastSweep = 0
  /\ response = NoResponse
  /\ popup = IdlePopup
  /\ page = [e \in ExecIds |-> NoScript]

(* ------------------------------- clock --------------------------------- *)
Later == {t \in Instants : t > now}
Tick ==
  /\ Later # {}
  /\ now' = CHOOSE t \in Later : \A u \in Later : t <= u
  /\ UNCHANGED <<variant, apiAvailable, activeExecutions, objs, exec, timer, cancel, lastSweep, popup, page>>
  /\ response' = NoResponse

(* --------------------- handleExecuteScript: entry ---------------------- *)
DemoCases == {"syncLoop", "unknownCase"}

NextIdleExec(e) == exec[e].pc = "idle" /\ \A f \in ExecIds : f < e => exec[f].pc # "idle"
\* Tab ids are only compared for equality: the active tab is the lowest id not
\* seen so far, or one seen before.
SeenTabs == {objs[o].tabId : o \in DOMAIN objs} \cup {exec[e].tab : e \in ExecIds}
ActiveTabs == {t \in Tabs : \A u \in Tabs : u < t => u \in SeenTabs}
NextIdleCancel(c) == cancel[c].pc = "idle" /\ \A d \in CancelIds : d < c => cancel[d].pc # "idle"

\* ExecuteScriptMessage with the API check left out
ExecuteScriptMessageNoApiCheck(e, d, dc) ==
  /\ NextIdleExec(e)
  /\ (variant = "pregen") = (dc \in DemoCases)
  /\ exec' = [exec EXCEPT ![e].pc = "tabsQuery", ![e].duration = d, ![e].demoCase = dc]
  /\ response' = NoResponse
  /\ UNCHANGED <<variant, apiAvailable, now, activeExecutions, objs, timer, cancel, lastSweep, popup, page>>

\* onMessage 'executeScript': handleExecuteScript up to its first await
\* (the API check, then chrome.tabs.query is issued).
ExecuteScriptMessage(e, d, dc) ==
  /\ NextIdleExec(e)
  /\ (variant = "pregen") = (dc \in DemoCases)
  /\ IF ~apiAvailable
     THEN /\ exec' = [exec EXCEPT ![e] = DoneExec]
          /\ response' = StartFailure(e, ApiMissing)
     ELSE /\ exec' = [exec EXCEPT ![e].pc = "tabsQuery", ![e].duration = d, ![e].demoCase = dc]
          /\ response' = NoResponse
  /\ UNCHANGED <<variant, apiAvailable, now, activeExecutions, objs, timer, cancel, lastSweep, popup, page>>

(* ------------- handleExecuteScript: "coop" and "basic" ----------------- *)
\* The object literal stored by activeExecutions.set
NewExecution(key, id, tab, d, tempId, dc) ==
  [key |-> key, executionId |-> id, tabId |-> tab, startTime |-> now, duration |-> d,
   status |-> "running", endTime |-> Unset, error |-> Unset,
   tempId |-> tempId, demoCase |-> dc]

\* FallbackDelay with the grace margin left out
FallbackDelayNoGrace(d) == d

\* the delay handed to setTimeout for the background completion monitor
FallbackDelay(d) == d + GraceMargin

\* chrome.tabs.query settles; with a tab the script is built and
\* chrome.userScripts.execute is called and awaited.
ExecuteDispatch(e) ==
  /\ variant \in {"coop", "basic"}
  /\ exec[e].pc = "tabsQuery"
  /\ \/ /\ \E t \in ActiveTabs : exec' = [exec EXCEPT ![e].pc = "execute", ![e].tab = t]
        /\ response' = NoResponse
     \/ /\ exec' = [exec EXCEPT ![e] = DoneExec]
        /\ response' = StartFailure(e, "No active tab found")
     \/ /\ exec' = [exec EXCEPT ![e] = DoneExec]
        /\ response' = StartFailure(e, "tabs.query rejected")
  /\ UNCHANGED <<variant, apiAvailable, now, activeExecutions, objs, timer, cancel, lastSweep, popup, page>>

\* ExecuteStore without the catch: a rejection of chrome.userScripts.execute
\* rejects the handler's promise and sendResponse is never called
ExecuteStoreUncaught(e) ==
  /\ variant \in {"coop", "basic"}
  /\ exec[e].pc = "execute"
  /\ exec' = [exec EXCEPT ![e] = DoneExec]
  /\ \/ /\ objs' = (e :> NewExecution(e, e, exec[e].tab, exec[e].duration,
                                       IF variant = "coop" THEN Some(e) ELSE Unset, Unset)) @@ objs
        /\ activeExecutions' = MapSet(activeExecutions, e, e)
        /\ timer' = [timer EXCEPT ![e] = Some(now + FallbackDelay(exec[e].duration))]
        /\ response' = StartSuccess(e, e)
     \/ /\ response' = StartFailure(e, "No execution ID returned by browser")
        /\ UNCHANGED <<activeExecutions, objs, timer>>
     \/ /\ response' = NoResponse
        /\ UNCHANGED <<activeExecutions, objs, timer>>
  /\ UNCHANGED <<variant, apiAvailable, now, cancel, lastSweep, popup, page>>

\* the awaited chrome.userScripts.execute settles: the browser's executionId
\* (fresh per call, modelled by the call's number) keys the new record, the
\* fallback timer is armed and the success response is sent.
ExecuteStore(e) ==
  /\ variant \in {"coop", "basic"}
  /\ exec[e].pc = "execute"
  /\ exec' = [exec EXCEPT ![e] = DoneExec]
  /\ \/ /\ objs' = (e :> NewExecution(e, e, exec[e].tab, exec[e].duration,
                                       IF variant = "coop" THEN Some(e) ELSE Unset, Unset)) @@ objs
        /\ activeExecutions' = MapSet(activeExecutions, e, e)
        /\ timer' = [timer EXCEPT ![e] = Some(now + FallbackDelay(exec[e].duration))]
        /\ response' = StartSuccess(e, e)
     \/ /\ response' = StartFailure(e, "No execution ID returned by browser")
        /\ UNCHANGED <<activeExecutions, objs, timer>>
     \/ /\ response' = StartFailure(e, "execute rejected")
        /\ UNCHANGED <<activeExecutions, objs, timer>>
  /\ UNCHANGED <<variant, apiAvailable, now, cancel, lastSweep, popup, page>>

\* FallbackTimer that puts a record it no longer finds back into the Map
FallbackTimerRestoring(e) ==
  /\ timer[e] # Unset
  /\ now >= timer[e][1]
  /\ timer' = [timer EXCEPT ![e] = Unset]
  /\ LET execution == MapGet(activeExecutions, e) IN
       IF execution = 0
       THEN /\ activeExecutions' = MapSet(activeExecutions, e, e)
            /\ objs' = [objs EXCEPT ![e].status = "completed", ![e].endTime = Some(now)]
       ELSE /\ activeExecutions' = activeExecutions
            /\ objs' = IF objs[execution].status = "running"
                       THEN [objs EXCEPT ![execution].status = "completed",
                                         ![execution].endTime = Some(now)]
                       ELSE objs
  /\ UNCHANGED <<variant, apiAvailable, now, exec, cancel, lastSweep, popup, page>>
  /\ response' = NoResponse

\* the setTimeout callback of the background completion monitor
FallbackTimer(e) ==
  /\ timer[e] # Unset
  /\ now >= timer[e][1]
  /\ timer' = [timer EXCEPT ![e] = Unset]
  /\ LET execution == MapGet(activeExecutions, e) IN
       objs' = IF execution # 0 /\ objs[execution].status = "running"
               THEN [objs EXCEPT ![execution].status = "completed",
                                 ![execution].endTime = Some(now)]
               ELSE objs
  /\ UNCHANGED <<variant, apiAvailable, now, activeExecutions, exec, cancel, lastSweep, popup, page>>
  /\ response' = NoResponse

(* -------------------- handleExecuteScript: "pregen" -------------------- *)
\* `${tab.id}_${Date.now()}`
TrackingId(t) == <<t, now>>

\* CryptoRandomUUID when the id is not known before the script has started
\* (0 stands for an undefined executionId)
ExecutionIdNotYetKnown(e) == 0

\* crypto.randomUUID(): a fresh, non-empty string per call (the call's number)
CryptoRandomUUID(e) == e

\* chrome.tabs.query settles; the record is stored under its trackingId with
\* the pre-generated executionId (crypto.randomUUID, fresh per call), then
\* chrome.userScripts.execute is called without awaiting it and the handle is
\* returned.  The then/catch callbacks keep trackingId (exec[e].key).
ExecutePregen(e) ==
  /\ variant = "pregen"
  /\ exec[e].pc = "tabsQuery"
  /\ \/ \E t \in ActiveTabs :
          /\ exec[e].demoCase = "syncLoop"
          /\ objs' = (e :> NewExecution(TrackingId(t), CryptoRandomUUID(e), t,
                                         exec[e].duration, Unset,
                                         Some(exec[e].demoCase))) @@ objs
          /\ activeExecutions' = MapSet(activeExecutions, TrackingId(t), e)
          /\ exec' = [exec EXCEPT ![e] = [IdleExec EXCEPT !.pc = "execute",
                                                          !.key = Some(TrackingId(t))]]
          /\ response' = StartSuccess(e, TrackingId(t))
     \/ /\ exec[e].demoCase # "syncLoop"
        /\ exec' = [exec EXCEPT ![e] = DoneExec]
        /\ response' = StartFailure(e, "Unknown demo case")
        /\ UNCHANGED <<activeExecutions, objs>>
     \/ /\ exec' = [exec EXCEPT ![e] = DoneExec]
        /\ response' = StartFailure(e, "No active tab found")
        /\ UNCHANGED <<activeExecutions, objs>>
     \/ /\ exec' = [exec EXCEPT ![e] = DoneExec]
        /\ response' = StartFailure(e, "tabs.query rejected")
        /\ UNCHANGED <<activeExecutions, objs>>
  /\ UNCHANGED <<variant, apiAvailable, now, timer, cancel, lastSweep, popup, page>>

\* execute(...).then(results => ...)
ExecuteThen(e) ==
  /\ variant = "pregen"
  /\ exec[e].pc = "execute"
  /\ exec' = [exec EXCEPT ![e] = DoneExec]
  /\ LET execution == MapGet(activeExecutions, exec[e].key[1]) IN
       objs' = IF execution # 0
               THEN [objs EXCEPT ![execution].status = "completed",
                                 ![execution].endTime = Some(now)]
               ELSE objs
  /\ UNCHANGED <<variant, apiAvailable, now, activeExecutions, timer, cancel, lastSweep, popup, page>>
  /\ response' = NoResponse

\* execute(...).catch(error => ...)
ExecuteCatch(e) ==
  /\ variant = "pregen"
  /\ exec[e].pc = "execute"
  /\ exec' = [exec EXCEPT ![e] = DoneExec]
  /\ LET execution == MapGet(activeExecutions, exec[e].key[1]) IN
       objs' = IF execution # 0
               THEN [objs EXCEPT ![execution].status = "failed",
                                 ![execution].endTime = Some(now),
                                 ![execution].error = Some("execute rejected")]
               ELSE objs
  /\ UNCHANGED <<variant, apiAvailable, now, activeExecutions, timer, cancel, lastSweep, popup, page>>
  /\ response' = NoResponse

(* ------------------- the injected script ("coop") ---------------------- *)
\* the timeouts an executeScript message can carry (Unset: no timeout field)
Timeouts == {Unset, Some(0), Some(1000)}
InitialWait == 50
WorkBurst == 5

\* `${timeout || 'null'}`: the literal the script text carries (Unset: null)
TimeoutLiteral(t) == IF t = Unset \/ t[1] = 0 THEN Unset ELSE t

\* the script's return value; its locals are gone and it has deleted its flag
EndedScript(s, outcome) ==
  [NoScript EXCEPT !.pc = "ended", !.tab = s.tab, !.outcome = Some(outcome)]

\* The browser starts the script of call e in the tab: the synchronous
\* prelude (constants, the flag set to false, the indicator) up to the 50 ms
\* wait.  The worker hands message.timeout to the script text only, so it is
\* drawn here, where the text starts to run.
ScriptStart(e, t) ==
  /\ variant = "coop"
  /\ page[e].pc = "none"
  /\ exec[e].pc = "execute" \/ e \in DOMAIN objs
  /\ LET tab == IF exec[e].pc = "execute" THEN exec[e].tab ELSE objs[e].tabId
         d == IF exec[e].pc = "execute" THEN exec[e].duration ELSE objs[e].duration
     IN page' = [page EXCEPT ![e] =
                   [pc |-> "loop", tab |-> tab, startTime |-> now, duration |-> d,
                    timeout |-> TimeoutLiteral(t), wake |-> now + InitialWait,
                    flag |-> Some(FALSE), outcome |-> Unset]]
  /\ response' = NoResponse
  /\ UNCHANGED <<variant, apiAvailable, now, activeExecutions, objs, exec, timer, cancel,
                 lastSweep, popup>>

\* ScriptLoop with the cancellation check left out
ScriptLoopNoFlagCheck(e) ==
  /\ page[e].pc = "loop"
  /\ now >= page[e].wake
  /\ LET s == page[e]
         elapsed == now - s.startTime
     IN page' = [page EXCEPT ![e] =
                   IF ~(elapsed < s.duration) THEN EndedScript(s, "completed")
                   ELSE IF s.timeout # Unset /\ elapsed >= s.timeout[1]
                   THEN EndedScript(s, "timeout")
                   ELSE [s EXCEPT !.wake = now + WorkBurst]]
  /\ response' = NoResponse
  /\ UNCHANGED <<variant, apiAvailable, now, activeExecutions, objs, exec, timer, cancel,
                 lastSweep, popup>>

\* The script resumes from a setTimeout: the while condition, the timeout
\* check, the cancellation check, then a 5 ms burst of work and the next
\* setTimeout(0); or the code after the loop.
ScriptLoop(e) ==
  /\ page[e].pc = "loop"
  /\ now >= page[e].wake
  /\ LET s == page[e]
         elapsed == now - s.startTime
     IN page' = [page EXCEPT ![e] =
                   IF ~(elapsed < s.duration) THEN EndedScript(s, "completed")
                   ELSE IF s.timeout # Unset /\ elapsed >= s.timeout[1]
                   THEN EndedScript(s, "timeout")
                   ELSE IF s.flag = Some(TRUE) THEN EndedScript(s, "cancelled")
                   ELSE [s EXCEPT !.wake = now + WorkBurst]]
  /\ response' = NoResponse
  /\ UNCHANGED <<variant, apiAvailable, now, activeExecutions, objs, exec, timer, cancel,
                 lastSweep, popup>>

\* (tempId) => { window.__scriptCancellations = window.__scriptCancellations
\* || {}; window.__scriptCancellations[tempId] = true }, run in the tab of
\* record o with its tempId (unique per call: the call's number)
FlagInjected(o) == [page EXCEPT ![objs[o].tempId[1]].flag = Some(TRUE)]

\* what chrome.userScripts.terminate(executionId) can do to the script: stop
\* it where it is suspended (nothing after that point runs, the flag stays)
ScriptKilled(id) ==
  IF id \in ExecIds /\ page[id].pc = "loop"
  THEN [page EXCEPT ![id] = [EndedScript(page[id], "killed") EXCEPT !.flag = page[id].flag]]
  ELSE page

(* ------------------------- handleCancelScript -------------------------- *)
TerminateOutcomes == {"true", "false", "throws"}

\* MarkTerminated with the endTime assignment left out
MarkTerminatedNoEndTime(o) ==
  [objs EXCEPT ![o].status = "terminated"]

\* execution.status = 'terminated'; execution.endTime = Date.now()
MarkTerminated(o) ==
  [objs EXCEPT ![o].status = "terminated", ![o].endTime = Some(now)]

\* CancelCoop with the `!execution` check left out: reading execution.status
\* of undefined throws, and the outer catch answers with the TypeError
CancelCoopNoLookupCheck(c, id) ==
  /\ variant = "coop"
  /\ NextIdleCancel(c)
  /\ LET execution == MapGet(activeExecutions, id) IN
       IF execution = 0
       THEN /\ cancel' = [cancel EXCEPT ![c] = DoneCancel]
            /\ response' = CancelFailure(c, 0, "none", "Cannot read properties of undefined")
       ELSE IF objs[execution].status # "running"
       THEN /\ cancel' = [cancel EXCEPT ![c] = DoneCancel]
            /\ response' = CancelFailure(c, execution, "none", "Execution is not running")
       ELSE /\ cancel' = [cancel EXCEPT ![c] = [pc |-> "flag", arg |-> id, target |-> execution]]
            /\ response' = NoResponse
  /\ UNCHANGED <<variant, apiAvailable, now, activeExecutions, objs, exec, timer, lastSweep, popup, page>>

\* "coop": lookup by executionId, the two checks, then the flag injection
\* (chrome.scripting.executeScript) is issued and awaited.
CancelCoop(c, id) ==
  /\ variant = "coop"
  /\ NextIdleCancel(c)
  /\ LET execution == MapGet(activeExecutions, id) IN
       IF execution = 0
       THEN /\ cancel' = [cancel EXCEPT ![c] = DoneCancel]
            /\ response' = CancelFailure(c, 0, "none", "Execution not found")
       ELSE IF objs[execution].status # "running"
       THEN /\ cancel' = [cancel EXCEPT ![c] = DoneCancel]
            /\ response' = CancelFailure(c, execution, "none", "Execution is not running")
       ELSE /\ cancel' = [cancel EXCEPT ![c] = [pc |-> "flag", arg |-> id, target |-> execution]]
            /\ response' = NoResponse
  /\ UNCHANGED <<variant, apiAvailable, now, activeExecutions, objs, exec, timer, lastSweep, popup, page>>

\* CancelCoopFlagSettled without the inner try/catch: a rejected flag
\* injection reaches the outer catch and the handler returns the error
CancelCoopFlagUncaught(c) ==
  /\ variant = "coop"
  /\ cancel[c].pc = "flag"
  /\ \E ran \in BOOLEAN :
       IF ran
       THEN /\ cancel' = [cancel EXCEPT ![c].pc = "terminate"]
            /\ page' = FlagInjected(cancel[c].target)
            /\ response' = NoResponse
       ELSE /\ cancel' = [cancel EXCEPT ![c] = DoneCancel]
            /\ page' = page
            /\ response' = CancelFailure(c, cancel[c].target, "none", "injection rejected")
  /\ UNCHANGED <<variant, apiAvailable, now, activeExecutions, objs, exec, timer, lastSweep, popup>>

\* "coop": the flag injection settles: the injected function has run in the
\* tab, or the call is rejected (caught and logged); either way
\* chrome.userScripts.terminate(executionId) is issued and awaited.
CancelCoopFlagSettled(c) ==
  /\ variant = "coop"
  /\ cancel[c].pc = "flag"
  /\ cancel' = [cancel EXCEPT ![c].pc = "terminate"]
  /\ \E ran \in BOOLEAN : page' = IF ran THEN FlagInjected(cancel[c].target) ELSE page
  /\ UNCHANGED <<variant, apiAvailable, now, activeExecutions, objs, exec, timer, lastSweep, popup>>
  /\ response' = NoResponse

\* CancelCoopTerminateSettled with a retry: when terminate throws, the
\* handler goes back to inject the flag and call terminate once more
CancelCoopTerminateRetry(c) ==
  /\ variant = "coop"
  /\ cancel[c].pc = "terminate"
  /\ \E out \in TerminateOutcomes, stopped \in BOOLEAN :
       IF out = "throws"
       THEN /\ cancel' = [cancel EXCEPT ![c].pc = "flag"]
            /\ response' = NoResponse
            /\ UNCHANGED <<objs, page>>
       ELSE /\ cancel' = [cancel EXCEPT ![c] = DoneCancel]
            /\ objs' = MarkTerminated(cancel[c].target)
            /\ response' = CancelSuccess(c, cancel[c].target, out, "true")
            /\ page' = IF out = "true" /\ stopped THEN ScriptKilled(cancel[c].arg) ELSE page
  /\ UNCHANGED <<variant, apiAvailable, now, activeExecutions, exec, timer, lastSweep, popup>>

\* "coop": terminate settles (a rejection is caught and logged, the value is
\* not read); the record is marked and success is returned.
CancelCoopTerminateSettled(c) ==
  /\ variant = "coop"
  /\ cancel[c].pc = "terminate"
  /\ cancel' = [cancel EXCEPT ![c] = DoneCancel]
  /\ objs' = MarkTerminated(cancel[c].target)
  /\ \E out \in TerminateOutcomes, stopped \in BOOLEAN :
       /\ response' = CancelSuccess(c, cancel[c].target, out, "true")
       /\ page' = IF out = "true" /\ stopped THEN ScriptKilled(cancel[c].arg) ELSE page
  /\ UNCHANGED <<variant, apiAvailable, now, activeExecutions, exec, timer, lastSweep, popup>>

\* CancelBasic with the `status !== 'running'` check left out
CancelBasicNoStatusCheck(c, id) ==
  /\ variant = "basic"
  /\ NextIdleCancel(c)
  /\ LET execution == MapGet(activeExecutions, id) IN
       IF execution = 0
       THEN /\ cancel' = [cancel EXCEPT ![c] = DoneCancel]
            /\ response' = CancelFailure(c, 0, "none", "Execution not found")
       ELSE /\ cancel' = [cancel EXCEPT ![c] = [pc |-> "terminate", arg |-> id,
                                                target |-> execution]]
            /\ response' = NoResponse
  /\ UNCHANGED <<variant, apiAvailable, now, activeExecutions, objs, exec, timer, lastSweep, popup, page>>

\* "basic": lookup by executionId, the two checks, then
\* chrome.userScripts.terminate(executionId) is issued and awaited.
CancelBasic(c, id) ==
  /\ variant = "basic"
  /\ NextIdleCancel(c)
  /\ LET execution == MapGet(activeExecutions, id) IN
       IF execution = 0
       THEN /\ cancel' = [cancel EXCEPT ![c] = DoneCancel]
            /\ response' = CancelFailure(c, 0, "none", "Execution not found")
       ELSE IF objs[execution].status # "running"
       THEN /\ cancel' = [cancel EXCEPT ![c] = DoneCancel]
            /\ response' = CancelFailure(c, execution, "none", "Execution is not running")
       ELSE /\ cancel' = [cancel EXCEPT ![c] = [pc |-> "terminate", arg |-> id,
                                                target |-> execution]]
            /\ response' = NoResponse
  /\ UNCHANGED <<variant, apiAvailable, now, activeExecutions, objs, exec, timer, lastSweep, popup, page>>

\* "basic": terminate settles; only a truthy value marks the record, and then
\* the indicator update (chrome.scripting.executeScript) is issued and awaited.
CancelBasicTerminateSettled(c) ==
  /\ variant = "basic"
  /\ cancel[c].pc = "terminate"
  /\ \/ /\ objs' = MarkTerminated(cancel[c].target)
        /\ cancel' = [cancel EXCEPT ![c].pc = "indicator"]
        /\ response' = NoResponse
     \/ /\ cancel' = [cancel EXCEPT ![c] = DoneCancel]
        /\ response' = CancelFailure(c, cancel[c].target, "false", "Failed to terminate script")
        /\ UNCHANGED objs
     \/ /\ cancel' = [cancel EXCEPT ![c] = DoneCancel]
        /\ response' = CancelFailure(c, cancel[c].target, "throws", "terminate rejected")
        /\ UNCHANGED objs
  /\ UNCHANGED <<variant, apiAvailable, now, activeExecutions, exec, timer, lastSweep, popup, page>>

\* "basic": the indicator update settles; its rejection reaches the outer catch.
CancelBasicIndicatorSettled(c) ==
  /\ variant = "basic"
  /\ cancel[c].pc = "indicator"
  /\ cancel' = [cancel EXCEPT ![c] = DoneCancel]
  /\ \/ response' = CancelSuccess(c, cancel[c].target, "true", "true")
     \/ response' = CancelFailure(c, cancel[c].target, "true", "executeScript rejected")
  /\ UNCHANGED <<variant, apiAvailable, now, activeExecutions, objs, exec, timer, lastSweep, popup, page>>

\* "pregen": the first running execution of the tab, in Map order (0: none)
FirstRunningOnTab(tabId) ==
  LET hits == {i \in 1..Len(activeExecutions) :
                 /\ objs[activeExecutions[i].obj].tabId = tabId
                 /\ objs[activeExecutions[i].obj].status = "running"}
  IN IF hits = {} THEN 0
     ELSE activeExecutions[CHOOSE i \in hits : \A j \in hits : i <= j].obj

NotYetAvailable == "Execution ID not yet available (script may still be starting)"

\* "pregen": lookup by tabId, the executionId check, then
\* chrome.userScripts.terminate(tabId, executionId) is issued and awaited.
CancelPregen(c, tabId) ==
  /\ variant = "pregen"
  /\ NextIdleCancel(c)
  /\ LET executionToTerminate == FirstRunningOnTab(tabId) IN
       IF executionToTerminate = 0
       THEN /\ cancel' = [cancel EXCEPT ![c] = DoneCancel]
            /\ response' = CancelFailure(c, 0, "none", "No running execution found on this tab")
       ELSE IF objs[executionToTerminate].executionId = 0
       THEN /\ cancel' = [cancel EXCEPT ![c] = DoneCancel]
            /\ response' = CancelFailure(c, executionToTerminate, "none", NotYetAvailable)
       ELSE /\ cancel' = [cancel EXCEPT ![c] = [pc |-> "terminate", arg |-> tabId,
                                                target |-> executionToTerminate]]
            /\ response' = NoResponse
  /\ UNCHANGED <<variant, apiAvailable, now, activeExecutions, objs, exec, timer, lastSweep, popup, page>>

\* "pregen": terminate settles; any returned value marks the record and is
\* reported as `terminated`, a rejection reaches the catch.
CancelPregenTerminateSettled(c) ==
  /\ variant = "pregen"
  /\ cancel[c].pc = "terminate"
  /\ cancel' = [cancel EXCEPT ![c] = DoneCancel]
  /\ \/ \E out \in {"true", "false"} :
          /\ objs' = MarkTerminated(cancel[c].target)
          /\ response' = CancelSuccess(c, cancel[c].target, out, out)
     \/ /\ response' = CancelFailure(c, cancel[c].target, "throws", "terminate rejected")
        /\ UNCHANGED objs
  /\ UNCHANGED <<variant, apiAvailable, now, activeExecutions, exec, timer, lastSweep, popup, page>>

(* --------------------------- cleanup sweep ----------------------------- *)
\* Expired with running executions spared
ExpiredUnlessRunning(o) ==
  now - objs[o].startTime > RetentionWindow /\ objs[o].status # "running"

\* now - execution.startTime > 5 * 60 * 1000
Expired(o) == now - objs[o].startTime > RetentionWindow

\* the setInterval callback
CleanupSweep ==
  /\ now >= lastSweep + SweepInterval
  /\ lastSweep' = now
  /\ activeExecutions' = SelectSeq(activeExecutions, LAMBDA entry : ~Expired(entry.obj))
  /\ UNCHANGED <<variant, apiAvailable, now, objs, exec, timer, cancel, popup, page>>
  /\ response' = NoResponse

(* ------------------------ getActiveExecutions -------------------------- *)
\* Snapshot with the executions that are no longer running left out
SnapshotRunningOnly ==
  LET running == SelectSeq(activeExecutions, LAMBDA entry : objs[entry.obj].status = "running")
  IN [i \in 1..Len(running) |-> objs[running[i].obj]]

\* Array.from(activeExecutions.values()) as sendResponse serialises it: the
\* field values of every execution, in the Map's order
Snapshot == [i \in 1..Len(activeExecutions) |-> objs[activeExecutions[i].obj]]

ListResponse(list) == [to |-> "getActiveExecutions", list |-> list]

\* onMessage 'getActiveExecutions': answered inside the listener
GetActiveExecutions ==
  /\ response' = ListResponse(Snapshot)
  /\ UNCHANGED <<variant, apiAvailable, now, activeExecutions, objs, exec, timer, cancel, lastSweep, popup, page>>

(* ------------------------------ popup.js ------------------------------- *)
\* A JavaScript number as the popup meets it: NaN or an integer.
NaN == [nan |-> TRUE, val |-> 0]
Num(n) == [nan |-> FALSE, val |-> n]
\* the < and > of JavaScript: false as soon as an operand is NaN
Lt(a, b) == ~a.nan /\ ~b.nan /\ a.val < b.val
Gt(a, b) == Lt(b, a)

\* Text is a sequence of one-character strings.
DigitChars == <<"0", "1", "2", "3", "4", "5", "6", "7", "8", "9">>
IsDigit(c) == \E i \in 1..Len(DigitChars) : DigitChars[i] = c
DigitValue(c) == (CHOOSE i \in 1..Len(DigitChars) : DigitChars[i] = c) - 1
\* how many decimal digits the text starts with
LeadingDigits(s) ==
  CHOOSE n \in 0..Len(s) :
    /\ \A i \in 1..n : IsDigit(s[i])
    /\ n < Len(s) => ~IsDigit(s[n + 1])
RECURSIVE Decimal(_)
Decimal(s) ==
  IF s = <<>> THEN 0
  ELSE 10 * Decimal(SubSeq(s, 1, Len(s) - 1)) + DigitValue(s[Len(s)])
\* parseInt(text): an optional sign, then the longest run of digits, whatever
\* follows it; NaN when there is no digit.  (Leading blanks are not modelled.)
ParseInt(s) ==
  LET signed == s # <<>> /\ s[1] \in {"-", "+"}
      body == IF signed THEN Tail(s) ELSE s
      n == LeadingDigits(body)
      magnitude == Decimal(SubSeq(body, 1, n))
  IN IF n = 0 THEN NaN
     ELSE Num(IF signed /\ s[1] = "-" THEN 0 - magnitude ELSE magnitude)

\* chrome.runtime.sendMessage carries the message as JSON, where NaN becomes
\* null; the worker's uses of it (duration + 1000, and `${duration}` compared
\* with < in the generated script) read null as 0.
JsonNumber(x) == IF x.nan THEN 0 ELSE x.val

\* what the user may have typed into durationInput
Inputs ==
  { <<>>, <<"9", "9", "9">>, <<"1", "0", "0", "0">>, <<"4", "0", "0", "0", "0">>,
    <<"6", "0", "0", "0", "0">>, <<"6", "0", "0", "0", "1">>, <<"1", "e", "3">>, <<"-", "1">> }

\* what the user types while the polling is watched
PollInputs == { <<"9", "9", "9">>, <<"1", "0", "0", "0">> }

ShowStatus(message, type) == Some([message |-> message, type |-> type])

\* executeBtn 'click' up to its await: parse, validate, disable the button
\* and send the executeScript message (`call` numbers the message sent).
ExecuteBtnClick(input) ==
  /\ popup.pc = "idle"
  /\ LET duration == ParseInt(input) IN
       IF Lt(duration, Num(1000)) \/ Gt(duration, Num(60000))
       THEN popup' = [popup EXCEPT !.status =
                        ShowStatus("Please enter a duration between 1000ms and 60000ms", "error")]
       ELSE \E e \in ExecIds :
              /\ NextIdleExec(e)
              /\ popup' = [popup EXCEPT !.pc = "sendMessage", !.call = e,
                                        !.duration = JsonNumber(duration),
                                        !.status = ShowStatus("Starting script execution...", "info")]
  /\ response' = NoResponse
  /\ UNCHANGED <<variant, apiAvailable, now, activeExecutions, objs, exec, timer, cancel, lastSweep, page>>

\* the popup's executeScript message reaches the worker's onMessage listener
OnExecuteScript ==
  /\ popup.pc = "sendMessage"
  /\ ExecuteScriptMessage(popup.call, popup.duration, "")

\* startPolling with the id setInterval returns: a timer it already keeps is
\* cleared first.
StartPollingNoClear(pp, id) ==
  [pp EXCEPT !.pollingInterval = id, !.intervals = pp.intervals \cup {id}]

StartPolling(pp, id) ==
  [pp EXCEPT !.pollingInterval = id,
             !.intervals = (pp.intervals \ {pp.pollingInterval}) \cup {id}]

\* the click handler after its await: the worker's answer has arrived (the
\* answers of the worker reach the page in the order they were sent), the
\* status is shown, on success the polling is started, and the button is
\* enabled again.  (currentExecutionId is assigned here and read nowhere;
\* the refreshExecutions() it calls is RefreshExecutionsSettled.)
ExecuteBtnSettled ==
  /\ popup.pc = "sendMessage"
  /\ response.to = "executeScript" /\ response.call = popup.call
  /\ LET shown == [popup EXCEPT !.pc = "idle", !.call = 0, !.duration = 0,
                                !.status = IF response.success
                                           THEN ShowStatus("Script started!", "success")
                                           ELSE ShowStatus("Error", "error")]
     IN popup' = IF response.success THEN StartPolling(shown, popup.call) ELSE shown
  /\ response' = NoResponse
  /\ UNCHANGED <<variant, apiAvailable, now, activeExecutions, objs, exec, timer, cancel, lastSweep, page>>

\* refreshExecutions after its await: the array the worker answered with is
\* what the popup shows from now on.
RefreshExecutionsSettled ==
  /\ response.to = "getActiveExecutions"
  /\ popup' = [popup EXCEPT !.executions = Some(response.list)]
  /\ response' = NoResponse
  /\ UNCHANGED <<variant, apiAvailable, now, activeExecutions, objs, exec, timer, cancel, lastSweep, page>>

\* the interval callback starts: a timer that is not cleared fires and the
\* callback sends the message of its refreshExecutions().
PollTick(p) ==
  /\ popup.intervals # {}
  /\ popup.poll[p] = "idle"
  /\ \A q \in PollIds : q < p => popup.poll[q] # "idle"
  /\ popup' = [popup EXCEPT !.poll[p] = "refresh"]
  /\ response' = NoResponse
  /\ UNCHANGED <<variant, apiAvailable, now, activeExecutions, objs, exec, timer, cancel, lastSweep, page>>

\* the callback after `await refreshExecutions()`: the list is shown and the
\* callback's own getActiveExecutions message is sent.
PollRefreshed(p) ==
  /\ popup.poll[p] = "refresh"
  /\ response.to = "getActiveExecutions"
  /\ popup' = [popup EXCEPT !.executions = Some(response.list), !.poll[p] = "query"]
  /\ response' = NoResponse
  /\ UNCHANGED <<variant, apiAvailable, now, activeExecutions, objs, exec, timer, cancel, lastSweep, page>>

HasRunning(executions) == \E i \in 1..Len(executions) : executions[i].status = "running"

\* the callback after its second await: without a running entry in the
\* answer it clears the timer pollingInterval names at that moment.
PollDecided(p) ==
  /\ popup.poll[p] = "query"
  /\ response.to = "getActiveExecutions"
  /\ popup' = IF HasRunning(response.list)
              THEN [popup EXCEPT !.poll[p] = "idle"]
              ELSE [popup EXCEPT !.poll[p] = "idle", !.pollingInterval = 0,
                                 !.intervals = popup.intervals \ {popup.pollingInterval}]
  /\ response' = NoResponse
  /\ UNCHANGED <<variant, apiAvailable, now, activeExecutions, objs, exec, timer, cancel, lastSweep, page>>

(* --------------------------- specification ----------------------------- *)
Next ==
  \/ Tick
  \/ \E e \in ExecIds, d \in Durations, dc \in DemoCases \cup {""} : ExecuteScriptMessage(e, d, dc)
  \/ \E e \in ExecIds : ExecuteDispatch(e)
  \/ \E e \in ExecIds : ExecuteStore(e)
  \/ \E e \in ExecIds : FallbackTimer(e)
  \/ \E e \in ExecIds : ExecutePregen(e)
  \/ \E e \in ExecIds : ExecuteThen(e)
  \/ \E e \in ExecIds : ExecuteCatch(e)
  \/ \E c \in CancelIds, id \in ExecIds : CancelCoop(c, id)
  \/ \E c \in CancelIds : CancelCoopFlagSettled(c)
  \/ \E c \in CancelIds : CancelCoopTerminateSettled(c)
  \/ \E c \in CancelIds, id \in ExecIds : CancelBasic(c, id)
  \/ \E c \in CancelIds : CancelBasicTerminateSettled(c)
  \/ \E c \in CancelIds : CancelBasicIndicatorSettled(c)
  \/ \E c \in CancelIds, t \in Tabs : CancelPregen(c, t)
  \/ \E c \in CancelIds : CancelPregenTerminateSettled(c)
  \/ GetActiveExecutions
  \/ CleanupSweep

Spec == Init /\ [][Next]_vars

\* The service worker when no cancelScript message ever arrives.
StartNext ==
  \/ Tick
  \/ \E e \in ExecIds, d \in Durations, dc \in DemoCases \cup {""} : ExecuteScriptMessage(e, d, dc)
  \/ \E e \in ExecIds : ExecuteDispatch(e)
  \/ \E e \in ExecIds : ExecuteStore(e)
  \/ \E e \in ExecIds : FallbackTimer(e)
  \/ \E e \in ExecIds : ExecutePregen(e)
  \/ \E e \in ExecIds : ExecuteThen(e)
  \/ \E e \in ExecIds : ExecuteCatch(e)
  \/ CleanupSweep

\* What the event loop guarantees: time passes, an armed setTimeout and the
\* setInterval fire, and chrome.tabs.query settles.  Nothing is assumed of
\* chrome.userScripts.execute: its promise may stay pending for ever.
Fairness ==
  /\ WF_vars(Tick)
  /\ WF_vars(CleanupSweep)
  /\ \A e \in ExecIds : WF_vars(FallbackTimer(e))
  /\ \A e \in ExecIds : WF_vars(ExecuteDispatch(e))
  /\ \A e \in ExecIds : WF_vars(ExecutePregen(e))

LiveSpec == Init /\ [][StartNext]_vars /\ Fairness

\* The popup page of popup.js with the service worker of background.js it
\* talks to, when the user starts scripts and the list is refreshed.
PopupInit == Init /\ variant \in {"coop", "basic"}

PopupNext ==
  \/ Tick
  \/ \E input \in Inputs : ExecuteBtnClick(input)
  \/ OnExecuteScript
  \/ ExecuteBtnSettled
  \/ \E e \in ExecIds : ExecuteDispatch(e)
  \/ \E e \in ExecIds : ExecuteStore(e)
  \/ \E e \in ExecIds : FallbackTimer(e)
  \/ GetActiveExecutions
  \/ RefreshExecutionsSettled
  \/ CleanupSweep

PopupSpec == PopupInit /\ [][PopupNext]_vars

\* The popup page with its polling timer and the service worker, when the
\* user starts scripts one after the other.
PollNext ==
  \/ Tick
  \/ \E input \in PollInputs : ExecuteBtnClick(input)
  \/ OnExecuteScript
  \/ ExecuteBtnSettled
  \/ \E e \in ExecIds : ExecuteDispatch(e)
  \/ \E e \in ExecIds : ExecuteStore(e)
  \/ \E e \in ExecIds : FallbackTimer(e)
  \/ GetActiveExecutions
  \/ RefreshExecutionsSettled
  \/ \E p \in PollIds : PollTick(p)
  \/ \E p \in PollIds : PollRefreshed(p)
  \/ \E p \in PollIds : PollDecided(p)

PollSpec == PopupInit /\ [][PollNext]_vars

\* The "coop" service worker with the page its scripts run in, watched at
\* the finer instants of a script's life (the cleanup sweep is not due
\* within them).
ScriptInstants == {k * ScriptStep : k \in 0..MaxScriptTicks}
ScriptTick ==
  /\ \E t \in ScriptInstants : t > now
  /\ now' = CHOOSE t \in ScriptInstants : t > now /\ \A u \in ScriptInstants : u > now => t <= u
  /\ UNCHANGED <<variant, apiAvailable, activeExecutions, objs, exec, timer, cancel, lastSweep,
                 popup, page>>
  /\ response' = NoResponse

ScriptInit == Init /\ variant = "coop"

ScriptNext ==
  \/ ScriptTick
  \/ \E e \in 1..MaxScripts, d \in Durations : ExecuteScriptMessage(e, d, "")
  \/ \E e \in ExecIds : ExecuteDispatch(e)
  \/ \E e \in ExecIds : ExecuteStore(e)
  \/ \E e \in ExecIds : FallbackTimer(e)
  \/ \E e \in ExecIds, t \in Timeouts : ScriptStart(e, t)
  \/ \E e \in ExecIds : ScriptLoop(e)
  \/ \E c \in CancelIds, id \in ExecIds : CancelCoop(c, id)
  \/ \E c \in CancelIds : CancelCoopFlagSettled(c)
  \/ \E c \in CancelIds : CancelCoopTerminateSettled(c)

ScriptSpec == ScriptInit /\ [][ScriptNext]_vars

(* ------------------------------ claims --------------------------------- *)
\* the identifier a caller passes to cancel a record: its executionId (the
\* Map key) in "coop" and "basic", its tabId in "pregen"
IdOf(o) == IF variant = "pregen" THEN objs[o].tabId ELSE objs[o].key
CancelRequest(c, id) == CancelCoop(c, id) \/ CancelBasic(c, id) \/ CancelPregen(c, id)
\* nothing but its creation has happened to record o: no callback, no timer,
\* no sweep, no cancellation
Untouched(o) ==
  /\ o \in Registered
  /\ objs[o].status = "running"
  /\ IF variant = "pregen" THEN exec[o].pc = "execute" ELSE timer[o] # Unset

\* C1: once a record is completed, failed or terminated, no step changes its
\* status or its endTime.
C1_TerminalAbsorbing ==
  [][\A o \in Registered :
       objs[o].status \in Terminal =>
         /\ objs'[o].status = objs[o].status
         /\ objs'[o].endTime = objs[o].endTime]_vars

\* C2: no state has a script dispatched to chrome.userScripts.execute whose
\* record has not been created.
C2_RecordBeforeDispatch ==
  \A e \in ExecIds : exec[e].pc = "execute" => e \in DOMAIN objs

\* C3: a cancel request carrying the identifier of a record nothing has
\* touched since its creation finds that record, and when its terminate call
\* settles with the record still untouched the record becomes terminated.
C3_ImmediateCancel ==
  [][\A c \in CancelIds, o \in DOMAIN objs :
       /\ (Untouched(o) /\ CancelRequest(c, IdOf(o))) =>
            (cancel'[c].pc \notin {"idle", "done"} /\ cancel'[c].target = o)
       /\ (cancel[c].pc = "terminate" /\ cancel[c].target = o /\ Untouched(o)
             /\ cancel'[c].pc # "terminate") =>
            objs'[o].status = "terminated"]_vars

\* C4: the identifiers handed to callers, which key the registry, are pairwise
\* distinct over all records ever created.
C4_UniqueIds ==
  \A o1 \in DOMAIN objs, o2 \in DOMAIN objs : o1 # o2 => objs[o1].key # objs[o2].key

\* C5: when the terminate call issued for a record settles, whatever it
\* returned or threw, the record is terminated with endTime set.
C5_TerminatedWhateverOutcome ==
  [][\A c \in CancelIds :
       (cancel[c].pc = "terminate" /\ cancel'[c].pc # "terminate") =>
         /\ objs'[cancel[c].target].status = "terminated"
         /\ objs'[cancel[c].target].endTime # Unset]_vars

\* C6: a cancel response sent after terminate reported failure (returned
\* false) comes with the record terminated and is not an unqualified success.
C6_CancelFailureVisible ==
  (response.to = "cancelScript" /\ response.said = "false") =>
    /\ objs[response.target].status = "terminated"
    /\ (response.success => response.terminated # "true")
\* the error a cancel request gets when its record is not running
NotRunningError ==
  IF variant = "pregen" THEN "No running execution found on this tab"
  ELSE "Execution is not running"
\* the error a cancel request gets when no record matches its identifier
NotFoundError ==
  IF variant = "pregen" THEN "No running execution found on this tab"
  ELSE "Execution not found"
\* no record of the registry matches the identifier
NoMatch(id) ==
  IF variant = "pregen"
  THEN \A o \in Registered : objs[o].tabId # id
  ELSE MapGet(activeExecutions, id) = 0

C8_UnknownCancelRejected ==
  [][\A c \in CancelIds, id \in ExecIds \cup Tabs :
       (NoMatch(id) /\ CancelRequest(c, id)) =>
         /\ cancel'[c].pc = "done"
         /\ response' = CancelFailure(c, 0, "none", NotFoundError)
         /\ UNCHANGED <<activeExecutions, objs>>]_vars

\* a cancel request was just refused as not found while the registry holds a
\* running record
C8_Witness ==
  /\ response.to = "cancelScript" /\ ~response.success
  /\ response.error = "Execution not found"
  /\ \E o \in Registered : objs[o].status = "running"

\* C9: every record of the registry has endTime set exactly when its status is
\* not running.
C9_EndTimeIffNotRunning ==
  \A o \in Registered : (objs[o].endTime # Unset) <=> (objs[o].status # "running")

\* the registry holds a running record and one that has ended
C9_Witness ==
  \E o1 \in Registered, o2 \in Registered :
    /\ objs[o1].status = "running" /\ objs[o1].endTime = Unset
    /\ objs[o2].status \in Terminal /\ objs[o2].endTime # Unset

\* C10: when the fallback timer of an execution fires, a record still running
\* becomes completed with endTime = now, and now is at least startTime +
\* duration + the grace margin; otherwise no record changes.
C10_FallbackCompletion ==
  [][\A e \in ExecIds :
       (timer[e] # Unset /\ timer'[e] = Unset) =>
         LET o == MapGet(activeExecutions, e) IN
           /\ activeExecutions' = activeExecutions
           /\ IF o # 0 /\ objs[o].status = "running"
              THEN /\ objs'[o].status = "completed"
                   /\ objs'[o].endTime = Some(now)
                   /\ now >= objs[o].startTime + objs[o].duration + GraceMargin
                   /\ \A p \in DOMAIN objs \ {o} : objs'[p] = objs[p]
              ELSE objs' = objs]_vars

\* a record was completed by its fallback timer at the first allowed instant,
\* and the timer of another record, cancelled before, has fired as well
C10_Witness ==
  /\ variant \in {"coop", "basic"}
  /\ \E o \in Registered, p \in Registered :
       /\ objs[o].status = "completed"
       /\ objs[o].endTime = Some(objs[o].startTime + objs[o].duration + GraceMargin)
       /\ objs[p].status = "terminated" /\ timer[p] = Unset

\* C11: once the script of a start request is handed to
\* chrome.userScripts.execute, a record of that request exists and has left
\* running status at some later time, whether or not execute ever settles.
C11_EventuallyLeavesRunning ==
  \A e \in ExecIds :
    (exec[e].pc = "execute") ~> (e \in DOMAIN objs /\ objs[e].status # "running")

\* C12: no script is handed to chrome.userScripts.execute and no record is
\* created for a start request of the popup whose duration is not within
\* [1000, 60000].
C12_OutOfBoundsRejected ==
  /\ \A e \in ExecIds : exec[e].pc = "execute" => exec[e].duration \in 1000..60000
  /\ \A o \in DOMAIN objs : objs[o].duration \in 1000..60000

C14_OnlySweepRemoves ==
  [][lastSweep' = lastSweep =>
       \A i \in 1..Len(activeExecutions) :
         /\ i <= Len(activeExecutions')
         /\ activeExecutions'[i] = activeExecutions[i]]_vars

\* C15: while chrome.userScripts.execute is absent every executeScript message
\* is answered at once with the API error and changes neither the registry
\* nor the timers; no tab is queried, nothing is dispatched, no record exists.
C15_ApiAbsentRejected ==
  /\ [](~apiAvailable =>
          /\ activeExecutions = <<>> /\ objs = <<>>
          /\ \A e \in ExecIds : timer[e] = Unset /\ exec[e].pc \in {"idle", "done"})
  /\ [][\A e \in ExecIds :
          (~apiAvailable /\ exec[e].pc = "idle" /\ exec'[e].pc # "idle") =>
            /\ response' = StartFailure(e, ApiMissing)
            /\ exec'[e].pc = "done"
            /\ UNCHANGED <<activeExecutions, objs, timer>>]_vars

\* the second start request in a row has just been refused for want of the API
C15_Witness ==
  /\ ~apiAvailable
  /\ exec[1].pc = "done"
  /\ response = StartFailure(2, ApiMissing)

\* the step in which the rejection of chrome.userScripts.execute is handled:
\* the catch block of handleExecuteScript, or the .catch callback
ExecutorRejects(e) ==
  \/ ExecuteStore(e) /\ response' = StartFailure(e, "execute rejected")
  \/ ExecuteCatch(e)

\* C16: the step that handles a rejection of chrome.userScripts.execute
\* answers the start request with a failure carrying the error, and leaves
\* the request's record, if the registry holds one, failed with that error.
C16_DispatchFailureSurfaced ==
  [][\A e \in ExecIds :
       ExecutorRejects(e) =>
         /\ response' = StartFailure(e, "execute rejected")
         /\ e \in Registered =>
              objs'[e].status = "failed" /\ objs'[e].error = Some("execute rejected")]_vars

C18_ListIsSnapshot ==
  /\ [](response.to = "getActiveExecutions" =>
          /\ Len(response.list) = Len(activeExecutions)
          /\ \A i \in 1..Len(activeExecutions) :
               response.list[i] = objs[activeExecutions[i].obj])
  /\ [][response'.to = "getActiveExecutions" =>
          UNCHANGED <<now, activeExecutions, objs, exec, timer, cancel, lastSweep>>]_vars
  /\ [][popup'.executions # popup.executions =>
          /\ response.to = "getActiveExecutions"
          /\ popup'.executions = Some(response.list)]_vars

\* the popup holds a list of two records, oldest first, whose first record is
\* shown running although the registry has it completed by now
C18_Witness ==
  /\ popup.executions # Unset
  /\ Len(popup.executions[1]) = 2
  /\ popup.executions[1][1].key = 1 /\ popup.executions[1][2].key = 2
  /\ popup.executions[1][1].status = "running"
  /\ 1 \in Registered /\ objs[1].status = "completed"

\* C19: a cancel request carrying the identifier of a running record is
\* applied to that record, and the step that ends the request's terminate
\* call changes no other record.
C19_IndependentCancel ==
  [][\A c \in CancelIds :
       /\ \A o \in Registered :
            (objs[o].status = "running" /\ CancelRequest(c, IdOf(o))) =>
              cancel'[c].target = o
       /\ (cancel[c].pc = "terminate" /\ cancel'[c].pc # "terminate") =>
            \A p \in DOMAIN objs \ {cancel[c].target} : objs'[p] = objs[p]]_vars

\* C20: while a record with a duration above 30000 ms is running, a timer is
\* pending that ends it no later than 30 seconds after its start.
C20_AutoTimeout ==
  \A o \in Registered :
    (objs[o].status = "running" /\ objs[o].duration > AutoTimeout) =>
      \E e \in ExecIds :
        /\ timer[e] # Unset
        /\ MapGet(activeExecutions, e) = o
        /\ timer[e][1] <= objs[o].startTime + AutoTimeout

\* the script of call e returns, or is stopped, in this step
ScriptEnds(e) == page[e].pc = "loop" /\ page'[e].pc = "ended"
Elapsed(e) == now - page[e].startTime

\* C21: a script whose timeout T is smaller than its duration D never ends
\* as completed successfully, and when it returns with its elapsed time at T
\* or beyond it returns the timeout outcome, whether or not the cancellation
\* flag is set at that check.
C21_TimeoutBeforeCompletion ==
  [][\A e \in ExecIds :
       (ScriptEnds(e) /\ page[e].timeout # Unset /\ page[e].timeout[1] < page[e].duration)
         => /\ page'[e].outcome # Some("completed")
            /\ (Elapsed(e) >= page[e].timeout[1] /\ page'[e].outcome # Some("killed"))
                 => page'[e].outcome = Some("timeout")]_vars

\* C22: once the cancellation flag of a script is true while its loop runs,
\* the flag stays true and the script's next step ends it: with the cancelled
\* outcome, or with the timeout outcome when its timeout has elapsed, or as
\* completed only when its duration has already ended (or terminate stops
\* it); it does not go round the loop again.
C22_FlagStopsScript ==
  [][\A e \in ExecIds :
       (page[e].pc = "loop" /\ page[e].flag = Some(TRUE) /\ page'[e] # page[e])
         => /\ page'[e].pc = "ended"
            /\ \/ page'[e].outcome = Some("cancelled")
               \/ page'[e].outcome = Some("killed")
               \/ /\ page'[e].outcome = Some("timeout")
                  /\ page[e].timeout # Unset /\ Elapsed(e) >= page[e].timeout[1]
               \/ /\ page'[e].outcome = Some("completed")
                  /\ Elapsed(e) >= page[e].duration]_vars

\* a script has returned the cancelled outcome while its record, marked by
\* the cancellation that set its flag, is terminated
C22_Witness ==
  \E e \in ExecIds :
    /\ page[e].outcome = Some("cancelled")
    /\ e \in DOMAIN objs /\ objs[e].status = "terminated"

\* handleCancelScript of call c has found its record running and has not yet
\* written to it
BetweenCheckAndWrite(c) == cancel[c].pc \in {"flag", "terminate"}

\* C23: a cancellation is one atomic step: while a request is between its
\* check that the record is running and its write of terminated, the record
\* is still running and no other request is between the same check and write
\* for that record (so only one of two concurrent requests can succeed).
C23_CancelAtomic ==
  \A c \in CancelIds :
    BetweenCheckAndWrite(c) =>
      /\ objs[cancel[c].target].status = "running"
      /\ \A d \in CancelIds \ {c} :
            BetweenCheckAndWrite(d) => cancel[d].target # cancel[c].target

\* C24: a cancellation that reports success reports it for a record whose
\* entry the reaper has not deleted: the registry still has the record's key.
C24_SuccessOnlyForRegistered ==
  (response.to = "cancelScript" /\ response.success)
    => MapHas(activeExecutions, objs[response.target].key)

\* C25: every record's status is running, completed, terminated or failed,
\* and a record has an error field only while its status is failed.
C25_StatusAndError ==
  \A o \in DOMAIN objs :
    /\ objs[o].status \in {"running", "completed", "terminated", "failed"}
    /\ objs[o].error # Unset => objs[o].status = "failed"

\* the order of a handler's positions: the dispatch call is pending at
\* "execute", the terminate call at "terminate"
ExecRank(pc) == CASE pc = "idle" -> 0 [] pc = "tabsQuery" -> 1 [] pc = "execute" -> 2
                  [] pc = "done" -> 3
CancelRank(pc) == CASE pc = "idle" -> 0 [] pc = "flag" -> 1 [] pc = "terminate" -> 2
                    [] pc = "indicator" -> 3 [] pc = "done" -> 4

\* C26: no retry: a handler only moves forward, so a start request comes to
\* the point where its dispatch call is pending at most once and a
\* cancellation request comes to the point where its terminate call is
\* pending at most once, whatever the calls return.
C26_NoRetry ==
  [][/\ \A e \in ExecIds :
          exec'[e].pc # exec[e].pc => ExecRank(exec'[e].pc) > ExecRank(exec[e].pc)
     /\ \A c \in CancelIds :
          cancel'[c].pc # cancel[c].pc => CancelRank(cancel'[c].pc) > CancelRank(cancel[c].pc)]_vars

\* terminate has thrown and the cancellation has returned
C26_Witness ==
  /\ response.to = "cancelScript" /\ response.said = "throws"
  /\ cancel[response.call].pc = "done"

\* C27: in the cooperative build a cancellation comes to its terminate call
\* only from its flag injection; however the injection settles, terminate is
\* called next, and when terminate settles the record is marked terminated
\* and success is answered.
C27_FlagThenTerminate ==
  [][variant = "coop" =>
       \A c \in CancelIds :
         /\ (cancel'[c].pc = "terminate" /\ cancel[c].pc # "terminate") => cancel[c].pc = "flag"
         /\ (cancel[c].pc = "flag" /\ cancel'[c] # cancel[c]) => cancel'[c].pc = "terminate"
         /\ (cancel[c].pc = "terminate" /\ cancel'[c] # cancel[c])
              => /\ objs'[cancel[c].target].status = "terminated"
                 /\ response'.to = "cancelScript" /\ response'.call = c /\ response'.success]_vars

\* a cancellation has answered success and its record is terminated although
\* its flag injection failed: the script is still in its loop with the flag
\* false
C27_Witness ==
  /\ response.to = "cancelScript" /\ response.success
  /\ objs[response.target].status = "terminated"
  /\ LET s == page[objs[response.target].tempId[1]] IN s.pc = "loop" /\ s.flag = Some(FALSE)

\* C28: when a cancel request for a tab (the build whose cancelScript
\* message names a tab) is answered with success, no record of that tab in
\* the registry is running.
C28_TabHasNoRunning ==
  (variant = "pregen" /\ response.to = "cancelScript" /\ response.success)
    => \A o \in Registered :
         objs[o].tabId = objs[response.target].tabId => objs[o].status # "running"

\* C29: when a cancellation that found its record running returns, it
\* answers success exactly when the record is terminated: a failure answer
\* leaves the record as the call found it, not terminated.
C29_SuccessIffTerminated ==
  [][\A c \in CancelIds :
       (cancel[c].pc \in {"flag", "terminate", "indicator"} /\ cancel'[c].pc = "done")
         => (response'.success <=> objs'[cancel[c].target].status = "terminated")]_vars

\* In the builds of background.js a handler returns in the very step in
\* which its message is answered, and in no other step (with C26: exactly one
\* answer per message, whatever the awaited calls do); an answer of failure
\* carries an error, leaves the registry's entries as they are and changes
\* no record other than the one the request was about.
OneAnswerNoDamage ==
  (variant = "coop" \/ variant = "basic") =>
    /\ \A e \in ExecIds :
         (exec[e].pc # "done" /\ exec'[e].pc = "done")
           <=> (response'.to = "executeScript" /\ response'.call = e)
    /\ \A c \in CancelIds :
         (cancel[c].pc # "done" /\ cancel'[c].pc = "done")
           <=> (response'.to = "cancelScript" /\ response'.call = c)
    /\ (response'.to \in {"executeScript", "cancelScript"} /\ ~response'.success)
         => /\ "error" \in DOMAIN response'
            /\ activeExecutions' = activeExecutions
            /\ DOMAIN objs' = DOMAIN objs
            /\ \A o \in DOMAIN objs :
                 ~(response'.to = "cancelScript" /\ o = response'.target)
                   => objs'[o] = objs[o]

C31_RunningStaysReachable ==
  \A o \in DOMAIN objs :
    (objs[o].status = "running" /\ MapHas(activeExecutions, objs[o].key))
      => MapGet(activeExecutions, objs[o].key) = o

\* C32: once a script has returned (completed, timeout or cancelled),
\* window.__scriptCancellations has no property for its tempId.
C32_NoFlagAfterEnd ==
  \A e \in ExecIds :
    (page[e].pc = "ended" /\ page[e].outcome # Some("killed")) => page[e].flag = Unset

\* the record created by call o has left the registry and its key with it
Evicted(o) == o \in DOMAIN objs /\ ~MapHas(activeExecutions, objs[o].key)

\* C33: a record the reaper removed never comes back into the registry, and
\* a step taken for it afterwards (its fallback timer, its executor callback,
\* a cancellation that holds it) changes neither the registry nor any other
\* record.
C33_EvictedStaysOut ==
  [][\A o \in DOMAIN objs :
       Evicted(o) =>
         /\ o \notin {activeExecutions'[i].obj : i \in 1..Len(activeExecutions')}
         /\ (\/ timer'[o] # timer[o]
             \/ exec'[o] # exec[o]
             \/ \E c \in CancelIds : cancel[c].target = o /\ cancel'[c] # cancel[c])
              => /\ activeExecutions' = activeExecutions
                 /\ \A p \in DOMAIN objs \ {o} : objs'[p] = objs[p]]_vars

\* the fallback timer of a record fired after the reaper had removed it (the
\* record is left running, outside the registry) while the registry holds
\* another record
C33_Witness ==
  \E o \in DOMAIN objs :
    /\ Evicted(o) /\ objs[o].status = "running"
    /\ variant # "pregen" /\ timer[o] = Unset
    /\ activeExecutions # <<>>

\* C34: in the build that pre-generates the execution id every record has a
\* non-empty executionId in every state it exists in, and no cancellation is
\* answered with the 'not yet available' error.
C34_ExecutionIdFromInsertion ==
  variant = "pregen" =>
    /\ \A o \in DOMAIN objs : objs[o].executionId # 0
    /\ ~(response.to = "cancelScript" /\ ~response.success /\ response.error = NotYetAvailable)

\* a cancellation has passed the executionId check for a record whose
\* execute call has not settled yet
C34_Witness ==
  /\ variant = "pregen"
  /\ \E c \in CancelIds :
       /\ cancel[c].pc = "terminate"
       /\ exec[cancel[c].target].pc = "execute"
       /\ objs[cancel[c].target].startTime = now

\* the starts whose answer the popup has taken: its click handler is past
\* the await on that call
StartAnswered(o) == ~(popup.pc = "sendMessage" /\ popup.call = o)

\* C35: once the popup has taken the success answer of a start, a polling
\* timer is active as long as the registry holds a running execution, and
\* the page never has two polling timers that are not cleared, whatever
\* poll callbacks are waiting when a start is answered.
C35_PollingWhileRunning ==
  /\ Cardinality(popup.intervals) <= 1
  /\ popup.intervals \subseteq {popup.pollingInterval}
  /\ \A o \in Registered :
       (objs[o].status = "running" /\ StartAnswered(o)) => popup.intervals # {}

\* a second start is answered with success while a callback of the first
\* timer is still waiting for its second answer, and both executions run
C35_Witness ==
  /\ popup.pollingInterval = 2
  /\ \E p \in PollIds : popup.poll[p] = "query"
  /\ \A o \in {1, 2} : o \in Registered /\ objs[o].status = "running"

====
